---- MODULE Spec2Model ----
(***************************************************************************)
(* Expression builder (src/app/page.tsx) and its selector widgets.         *)
(*                                                                         *)
(* A JavaScript string is a sequence of one-character strings, so that     *)
(* trim, split and Number work on characters.  A value of a JSON tree that *)
(* may be a string or a number is Str(s) or Num(n).  The fixed words of    *)
(* the program ('tag', 'constant', '=', '+', 'value', ...) are TLA+        *)
(* strings.                                                                *)
(***************************************************************************)
EXTENDS Integers, Sequences, FiniteSets, TLC

VARIABLES
    customTags,     \* page.tsx:89   the comma-separated tag configuration
    expression,     \* page.tsx:102  the expression being built
    valueMode,      \* page.tsx:96   'value' | 'calculation'
    val,            \* the argument of a classifier call (ClassifySpec)
    simpleAnalysis, \* the result of analyzeSimpleValue(val), or NotCalled
    valueAnalysis,  \* the result of SmartComboBox analyzeValue(val), or NotCalled
    component,      \* which selector component the instance is
    optionsProp,    \* the options prop of the selector instance
    selector        \* the selector instance: its useState cells, the value its
                    \* parent holds for it, and the timers it has scheduled

vars == <<customTags, expression, valueMode, val, simpleAnalysis, valueAnalysis,
          component, optionsProp, selector>>

pageVars == <<customTags, expression, valueMode>>
classifyVars == <<val, simpleAnalysis, valueAnalysis>>
selectorVars == <<component, optionsProp, selector>>

(***************************************************************************)
(* Bounds                                                                  *)
(***************************************************************************)
\* longest text typed into a selector of the page
MaxTyped == 1
\* longest raw string handed to a classifier in ClassifySpec
MaxLen == 3
\* how many of the six default tags of page.tsx:33 are kept
DefaultTagCount == 2
\* the batchSize prop handed to a selector (the components default to 20)
BatchSize == 2

\* characters typed into the selectors of the page
Alphabet == {" ", "4", "T"}
\* characters of the raw strings handed to a classifier
ClassifyAlphabet == {" ", "4", "-", "T", "t"}
\* characters typed into the search input of a selector instance
SearchAlphabet == {"4", "T", "t"}

Strings(alphabet, n) == UNION {[1..k -> alphabet] : k \in 0..n}

Min(S) == CHOOSE x \in S : \A y \in S : x <= y
Max(S) == CHOOSE x \in S : \A y \in S : x >= y

(***************************************************************************)
(* JavaScript string and number primitives                                 *)
(***************************************************************************)
Str(s) == [string |-> s]
Num(n) == [number |-> n]

WhiteSpace == {" ", "\t", "\n"}

\* the word spelled by a sequence of characters
RECURSIVE word(_)
word(chars) == IF chars = <<>> THEN "" ELSE Head(chars) \o word(Tail(chars))

\* String.prototype.trim
trim(s) ==
    LET keep == {i \in 1..Len(s) : s[i] \notin WhiteSpace}
    IN  IF keep = {} THEN <<>> ELSE SubSeq(s, Min(keep), Max(keep))

\* String.prototype.split(sep) for a one-character separator
RECURSIVE split(_, _)
split(s, sep) ==
    LET at == {i \in 1..Len(s) : s[i] = sep}
    IN  IF at = {} THEN <<s>>
        ELSE <<SubSeq(s, 1, Min(at) - 1)>>
                 \o split(SubSeq(s, Min(at) + 1, Len(s)), sep)

Digit == [c \in {"0", "1", "2", "3", "4", "5", "6", "7", "8", "9"} |->
            CASE c = "0" -> 0 [] c = "1" -> 1 [] c = "2" -> 2 [] c = "3" -> 3
              [] c = "4" -> 4 [] c = "5" -> 5 [] c = "6" -> 6 [] c = "7" -> 7
              [] c = "8" -> 8 [] c = "9" -> 9]

RECURSIVE DecimalValue(_)
DecimalValue(d) ==
    IF d = <<>> THEN 0
    ELSE 10 * DecimalValue(SubSeq(d, 1, Len(d) - 1)) + Digit[d[Len(d)]]

NaN == [nan |-> TRUE, n |-> 0]

\* Number(s) on strings of white space, signs, decimal digits and letters:
\* white space is stripped, the empty string is 0, an optionally signed run
\* of digits is its value, anything else is NaN.
Number(s) ==
    LET t == trim(s)
        signed == t # <<>> /\ t[1] \in {"+", "-"}
        d == IF signed THEN Tail(t) ELSE t
    IN  IF t = <<>> THEN [nan |-> FALSE, n |-> 0]
        ELSE IF d # <<>> /\ \A i \in 1..Len(d) : d[i] \in DOMAIN Digit
             THEN [nan |-> FALSE,
                   n |-> IF signed /\ t[1] = "-" THEN 0 - DecimalValue(d)
                         ELSE DecimalValue(d)]
             ELSE NaN

isNaN(x) == x.nan

(***************************************************************************)
(* Configuration data of the page                                          *)
(***************************************************************************)
Option(tag) == [value |-> tag, label |-> tag]

\* page.tsx:33  default tags when no custom tags are configured: Tag1, Tag2,
\* ... up to DefaultTagCount of the six
AVAILABLE_TAGS ==
    LET all == << Option(<<"T", "a", "g", "1">>), Option(<<"T", "a", "g", "2">>),
                  Option(<<"T", "a", "g", "3">>), Option(<<"T", "a", "g", "4">>),
                  Option(<<"T", "a", "g", "5">>), Option(<<"T", "a", "g", "6">>) >>
    IN  SubSeq(all, 1, IF DefaultTagCount < 6 THEN DefaultTagCount ELSE 6)

\* page.tsx:43  ids of the comparison operators
OPERATORS == <<"=", ">", "<", "!=", ">=", "<=">>

\* page.tsx:53  ids of the arithmetic operators
CALC_OPERATORS == <<"+", "-", "*", "/">>

\* page.tsx:84  the initial tag configuration, a ", "-separated list; the 50
\* industrial names of the source are abbreviated to two names
generateDefaultTags == <<"T", ",", " ", "4">>

\* the texts the configuration dialog is saved with: "", ",", "4,T" and the
\* default text "T, 4"
TagTexts == { <<>>, <<",">>, <<"4", ",", "T">>, generateDefaultTags }

Range(f) == {f[i] : i \in DOMAIN f}

\* Array.prototype.filter(tag => tag.length > 0)
RECURSIVE nonEmpty(_)
nonEmpty(tags) ==
    IF tags = <<>> THEN <<>>
    ELSE IF Len(Head(tags)) > 0 THEN <<Head(tags)>> \o nonEmpty(Tail(tags))
         ELSE nonEmpty(Tail(tags))

\* text.split(',').map(tag => tag.trim()).filter(tag => tag.length > 0)
parseTags(text) ==
    LET parts == split(text, ",")
    IN  nonEmpty([i \in 1..Len(parts) |-> trim(parts[i])])

\* page.tsx:117  the body of getAvailableTags for a tag text
tagsOf(text) ==
    IF trim(text) # <<>>
    THEN LET tags == parseTags(text)
         IN  [i \in 1..Len(tags) |-> Option(tags[i])]
    ELSE AVAILABLE_TAGS

\* page.tsx:117
getAvailableTags == tagsOf(customTags)

\* page.tsx:129
availableTags == getAvailableTags

\* options.some(tag => tag.value === value)
tagExists(options, value) == \E i \in 1..Len(options) : options[i].value = value

(***************************************************************************)
(* Value classification                                                    *)
(***************************************************************************)
\* analyzeSimpleValue with the numeric check made before the tag check
analyzeSimpleValue_numberFirst(value) ==
    LET numValue == Number(value)
    IN  IF ~isNaN(numValue) /\ trim(value) # <<>>
        THEN [type |-> "constant", value |-> Num(numValue.n)]
        ELSE IF tagExists(availableTags, value)
             THEN [type |-> "tag", value |-> Str(value)]
             ELSE [type |-> "constant", value |-> Str(value)]

\* analyzeSimpleValue without the value.trim() !== '' test
analyzeSimpleValue_noTrimTest(value) ==
    IF tagExists(availableTags, value)
    THEN [type |-> "tag", value |-> Str(value)]
    ELSE LET numValue == Number(value)
         IN  IF ~isNaN(numValue)
             THEN [type |-> "constant", value |-> Num(numValue.n)]
             ELSE [type |-> "constant", value |-> Str(value)]

\* page.tsx:211
analyzeSimpleValue(value) ==
    IF tagExists(availableTags, value)
    THEN [type |-> "tag", value |-> Str(value)]
    ELSE LET numValue == Number(value)
         IN  IF ~isNaN(numValue) /\ trim(value) # <<>>
             THEN [type |-> "constant", value |-> Num(numValue.n)]
             ELSE [type |-> "constant", value |-> Str(value)]

\* smart-combobox.tsx:61 (the icon is presentation and is left out)
analyzeValue(options, v) ==
    IF tagExists(options, v) THEN [type |-> "tag"]
    ELSE IF ~isNaN(Number(v)) /\ trim(v) # <<>> THEN [type |-> "number"]
         ELSE [type |-> "string"]

\* page.tsx:25  calculation?: the optional field is present
hasCalculation(expr) == "calculation" \in DOMAIN expr

\* analyzeRightValue that classifies its argument, the right value of the
\* comparison, as the right operand of the calculation
analyzeRightValue_classifiesValue(value) ==
    IF valueMode = "calculation" /\ hasCalculation(expression)
    THEN LET calc == expression.calculation
             calcRightAnalysis == analyzeSimpleValue(value)
         IN  [type |-> "calculation",
              value |-> [left |-> [type |-> "tag", value |-> Str(calc.leftTag)],
                         operator |-> calc.operator,
                         right |-> calcRightAnalysis]]
    ELSE analyzeSimpleValue(value)

\* analyzeRightValue without the valueMode test
analyzeRightValue_ignoresMode(value) ==
    IF hasCalculation(expression)
    THEN LET calc == expression.calculation
             calcRightAnalysis == analyzeSimpleValue(calc.rightValue)
         IN  [type |-> "calculation",
              value |-> [left |-> [type |-> "tag", value |-> Str(calc.leftTag)],
                         operator |-> calc.operator,
                         right |-> calcRightAnalysis]]
    ELSE analyzeSimpleValue(value)

\* page.tsx:187
analyzeRightValue(value) ==
    IF valueMode = "calculation" /\ hasCalculation(expression)
    THEN LET calc == expression.calculation
             calcRightAnalysis == analyzeSimpleValue(calc.rightValue)
         IN  [type |-> "calculation",
              value |-> [left |-> [type |-> "tag", value |-> Str(calc.leftTag)],
                         operator |-> calc.operator,
                         right |-> calcRightAnalysis]]
    ELSE analyzeSimpleValue(value)

(***************************************************************************)
(* The two compilers                                                       *)
(***************************************************************************)
\* page.tsx:255  operatorMap[op] || op
operatorMap(op) ==
    LET map == [o \in {"=", "!=", ">", "<", ">=", "<="} |->
                   IF o = "=" THEN "==" ELSE o]
    IN  IF op \in DOMAIN map THEN map[op] ELSE op

\* generateJSON with the operator mapped as generateJSONLogic maps it
generateJSON_mappedOperator ==
    LET rightAnalysis == analyzeRightValue(expression.rightValue)
    IN  [type |-> "comparison",
         left |-> [type |-> "tag", value |-> Str(expression.leftTag)],
         operator |-> operatorMap(expression.operator),
         right |-> rightAnalysis]

\* page.tsx:232
generateJSON ==
    LET rightAnalysis == analyzeRightValue(expression.rightValue)
    IN  [type |-> "comparison",
         left |-> [type |-> "tag", value |-> Str(expression.leftTag)],
         operator |-> expression.operator,
         right |-> rightAnalysis]

\* page.tsx:271  calcOperatorMap[op] || op
calcOperatorMap(op) ==
    LET map == [o \in {"+", "-", "*", "/"} |-> o]
    IN  IF op \in DOMAIN map THEN map[op] ELSE op

\* generateJSONLogic with the operator not mapped
generateJSONLogic_unmappedOperator ==
    LET rightAnalysis == analyzeRightValue(expression.rightValue)
        jsonLogicOperator == expression.operator
    IN  IF rightAnalysis.type = "calculation"
           /\ "operator" \in DOMAIN rightAnalysis.value
        THEN LET calc == rightAnalysis.value
                 jsonLogicCalcOperator == calcOperatorMap(calc.operator)
                 calcRight == IF calc.right.type = "tag"
                              THEN [var |-> calc.right.value]
                              ELSE calc.right.value
                 calculation ==
                     jsonLogicCalcOperator :>
                         <<[var |-> calc.left.value], calcRight>>
             IN  jsonLogicOperator :>
                     <<[var |-> Str(expression.leftTag)], calculation>>
        ELSE LET rightValue == IF rightAnalysis.type = "tag"
                               THEN [var |-> rightAnalysis.value]
                               ELSE rightAnalysis.value
             IN  jsonLogicOperator :>
                     <<[var |-> Str(expression.leftTag)], rightValue>>

\* generateJSONLogic whose simple right value is never wrapped in {"var": }
generateJSONLogic_bareRightValue ==
    LET rightAnalysis == analyzeRightValue(expression.rightValue)
        jsonLogicOperator == operatorMap(expression.operator)
    IN  IF rightAnalysis.type = "calculation"
           /\ "operator" \in DOMAIN rightAnalysis.value
        THEN LET calc == rightAnalysis.value
                 jsonLogicCalcOperator == calcOperatorMap(calc.operator)
                 calcRight == IF calc.right.type = "tag"
                              THEN [var |-> calc.right.value]
                              ELSE calc.right.value
                 calculation ==
                     jsonLogicCalcOperator :>
                         <<[var |-> calc.left.value], calcRight>>
             IN  jsonLogicOperator :>
                     <<[var |-> Str(expression.leftTag)], calculation>>
        ELSE LET rightValue == rightAnalysis.value
             IN  jsonLogicOperator :>
                     <<[var |-> Str(expression.leftTag)], rightValue>>

\* generateJSONLogic with the two operands of the calculation exchanged
generateJSONLogic_calcOperandsSwapped ==
    LET rightAnalysis == analyzeRightValue(expression.rightValue)
        jsonLogicOperator == operatorMap(expression.operator)
    IN  IF rightAnalysis.type = "calculation"
           /\ "operator" \in DOMAIN rightAnalysis.value
        THEN LET calc == rightAnalysis.value
                 jsonLogicCalcOperator == calcOperatorMap(calc.operator)
                 calcRight == IF calc.right.type = "tag"
                              THEN [var |-> calc.right.value]
                              ELSE calc.right.value
                 calculation ==
                     jsonLogicCalcOperator :>
                         <<calcRight, [var |-> calc.left.value]>>
             IN  jsonLogicOperator :>
                     <<[var |-> Str(expression.leftTag)], calculation>>
        ELSE LET rightValue == IF rightAnalysis.type = "tag"
                               THEN [var |-> rightAnalysis.value]
                               ELSE rightAnalysis.value
             IN  jsonLogicOperator :>
                     <<[var |-> Str(expression.leftTag)], rightValue>>

\* generateJSONLogic whose calculation wraps its right operand in {"var": }
\* whatever its classification
generateJSONLogic_calcRightAlwaysVar ==
    LET rightAnalysis == analyzeRightValue(expression.rightValue)
        jsonLogicOperator == operatorMap(expression.operator)
    IN  IF rightAnalysis.type = "calculation"
           /\ "operator" \in DOMAIN rightAnalysis.value
        THEN LET calc == rightAnalysis.value
                 jsonLogicCalcOperator == calcOperatorMap(calc.operator)
                 calcRight == [var |-> calc.right.value]
                 calculation ==
                     jsonLogicCalcOperator :>
                         <<[var |-> calc.left.value], calcRight>>
             IN  jsonLogicOperator :>
                     <<[var |-> Str(expression.leftTag)], calculation>>
        ELSE LET rightValue == IF rightAnalysis.type = "tag"
                               THEN [var |-> rightAnalysis.value]
                               ELSE rightAnalysis.value
             IN  jsonLogicOperator :>
                     <<[var |-> Str(expression.leftTag)], rightValue>>

\* page.tsx:251  an object with one computed key is a function on that key
generateJSONLogic ==
    LET rightAnalysis == analyzeRightValue(expression.rightValue)
        jsonLogicOperator == operatorMap(expression.operator)
    IN  IF rightAnalysis.type = "calculation"
           /\ "operator" \in DOMAIN rightAnalysis.value
        THEN LET calc == rightAnalysis.value
                 jsonLogicCalcOperator == calcOperatorMap(calc.operator)
                 calcRight == IF calc.right.type = "tag"
                              THEN [var |-> calc.right.value]
                              ELSE calc.right.value
                 calculation ==
                     jsonLogicCalcOperator :>
                         <<[var |-> calc.left.value], calcRight>>
             IN  jsonLogicOperator :>
                     <<[var |-> Str(expression.leftTag)], calculation>>
        ELSE LET rightValue == IF rightAnalysis.type = "tag"
                               THEN [var |-> rightAnalysis.value]
                               ELSE rightAnalysis.value
             IN  jsonLogicOperator :>
                     <<[var |-> Str(expression.leftTag)], rightValue>>

(***************************************************************************)
(* The selector components: options and filtering                          *)
(***************************************************************************)
UpperCase == <<"A", "B", "C", "D", "E", "F", "G", "H", "I", "J", "K", "L", "M", "N", "O", "P", "Q", "R", "S", "T", "U", "V", "W", "X", "Y", "Z">>
LowerCase == <<"a", "b", "c", "d", "e", "f", "g", "h", "i", "j", "k", "l", "m", "n", "o", "p", "q", "r", "s", "t", "u", "v", "w", "x", "y", "z">>

\* String.prototype.toLowerCase on the letters A-Z; other characters are kept
toLowerCase(s) ==
    [i \in 1..Len(s) |->
        IF \E j \in 1..Len(UpperCase) : UpperCase[j] = s[i]
        THEN LowerCase[CHOOSE j \in 1..Len(UpperCase) : UpperCase[j] = s[i]]
        ELSE s[i]]

\* String.prototype.includes: sub occurs in s as a run of adjacent characters
includes(s, sub) ==
    \E i \in 0..(Len(s) - Len(sub)) : SubSeq(s, i + 1, i + Len(sub)) = sub

\* Array.prototype.filter: the elements that pass, in their order; passing
\* is the set of the elements for which the callback returns true
filter(list, passing) ==
    LET kept[i \in 0..Len(list)] ==
            IF i = 0 THEN <<>>
            ELSE IF list[i] \in passing THEN Append(kept[i - 1], list[i])
            ELSE kept[i - 1]
    IN  kept[Len(list)]

\* combobox.tsx:16, smart-combobox.tsx:5  an option of a list selector
ComboBoxOption(value, label) == [value |-> value, label |-> label]

\* the options handed to a ComboBox or SmartComboBox instance: a list longer
\* than two batches, with one label that differs from its id
ListOptions ==
    << ComboBoxOption(<<"T">>, <<"T">>),
       ComboBoxOption(<<"4">>, <<"T", "4">>),
       ComboBoxOption(<<"t", "4">>, <<"t", "4">>),
       ComboBoxOption(<<"4", "4">>, <<"4", "4">>),
       ComboBoxOption(<<"T", "t">>, <<"T", "t">>) >>

\* page.tsx:43  the options handed to the comparison OperatorComboBox
OperatorOptions ==
    << [value |-> <<"=">>,
        label |-> <<"=", " ", "(", "e", "q", "u", "a", "l", "s", ")">>,
        display |-> <<"=">>],
       [value |-> <<">">>,
        label |-> <<">", " ", "(", "g", "r", "e", "a", "t", "e", "r", " ", "t", "h", "a", "n", ")">>,
        display |-> <<">">>],
       [value |-> <<"<">>,
        label |-> <<"<", " ", "(", "l", "e", "s", "s", " ", "t", "h", "a", "n", ")">>,
        display |-> <<"<">>],
       [value |-> <<"!", "=">>,
        label |-> <<"!", "=", " ", "(", "n", "o", "t", " ", "e", "q", "u", "a", "l", "s", ")">>,
        display |-> <<"!", "=">>],
       [value |-> <<">", "=">>,
        label |-> <<">", "=", " ", "(", "g", "r", "e", "a", "t", "e", "r", " ", "t", "h", "a", "n", " ", "o", "r", " ", "e", "q", "u", "a", "l", ")">>,
        display |-> <<">", "=">>],
       [value |-> <<"<", "=">>,
        label |-> <<"<", "=", " ", "(", "l", "e", "s", "s", " ", "t", "h", "a", "n", " ", "o", "r", " ", "e", "q", "u", "a", "l", ")">>,
        display |-> <<"<", "=">>] >>

\* page.tsx:53  the options handed to the arithmetic OperatorComboBox
CalcOperatorOptions ==
    << [value |-> <<"+">>,
        label |-> <<"+", " ", "(", "a", "d", "d", "i", "t", "i", "o", "n", ")">>,
        display |-> <<"+">>],
       [value |-> <<"-">>,
        label |-> <<"-", " ", "(", "s", "u", "b", "t", "r", "a", "c", "t", "i", "o", "n", ")">>,
        display |-> <<"-">>],
       [value |-> <<"*">>,
        label |-> <<"*", " ", "(", "m", "u", "l", "t", "i", "p", "l", "i", "c", "a", "t", "i", "o", "n", ")">>,
        display |-> <<"*">>],
       [value |-> <<"/">>,
        label |-> <<"/", " ", "(", "d", "i", "v", "i", "s", "i", "o", "n", ")">>,
        display |-> <<"/">>] >>

\* the ComboBox filter that compares without lower-casing
ComboBox_filteredOptions_caseSensitive(opts, searchTerm) ==
    LET passes(option) ==
            \/ includes(option.label, searchTerm)
            \/ includes(option.value, searchTerm)
    IN  filter(opts, {option \in Range(opts) : passes(option)})

\* combobox.tsx:61
ComboBox_filteredOptions(opts, searchTerm) ==
    LET passes(option) ==
            \/ includes(toLowerCase(option.label), toLowerCase(searchTerm))
            \/ includes(toLowerCase(option.value), toLowerCase(searchTerm))
    IN  filter(opts, {option \in Range(opts) : passes(option)})

\* operator-combobox.tsx:44
OperatorComboBox_filteredOptions(opts, searchTerm) ==
    LET passes(option) ==
            \/ includes(toLowerCase(option.label), toLowerCase(searchTerm))
            \/ includes(toLowerCase(option.value), toLowerCase(searchTerm))
            \/ includes(toLowerCase(option.display), toLowerCase(searchTerm))
    IN  filter(opts, {option \in Range(opts) : passes(option)})

\* an OperatorComboBox whose Enter hands the typed search text to onChange
\* when it matches no option, as a free-text selector does
OperatorComboBox_committed_typedText(opts) ==
    UNION { LET filtered == OperatorComboBox_filteredOptions(opts, searchTerm)
            IN  IF filtered = <<>> THEN {searchTerm}
                ELSE {filtered[i].value : i \in 1..Len(filtered)}
            : searchTerm \in Strings(SearchAlphabet, MaxTyped) }

\* operator-combobox.tsx:126,139,204  the values an OperatorComboBox hands to
\* onChange: the value of an option of filteredOptions, either the
\* highlighted one on Enter or the clicked one of the rendered list, for the
\* search text of the moment
OperatorComboBox_committed(opts) ==
    UNION { LET filtered == OperatorComboBox_filteredOptions(opts, searchTerm)
            IN  {filtered[i].value : i \in 1..Len(filtered)}
            : searchTerm \in Strings(SearchAlphabet, MaxTyped) }

\* the SmartComboBox filter without the exact-id test
SmartComboBox_filteredOptions_substringOnly(opts, inputValue) ==
    LET passes(option) ==
            \/ includes(toLowerCase(option.label), toLowerCase(inputValue))
            \/ includes(toLowerCase(option.value), toLowerCase(inputValue))
    IN  filter(opts, {option \in Range(opts) : passes(option)})

\* smart-combobox.tsx:43
SmartComboBox_filteredOptions(opts, inputValue) ==
    LET exactMatch == \E i \in 1..Len(opts) : opts[i].value = inputValue
        passes(option) ==
            IF exactMatch /\ Len(inputValue) > 0 THEN TRUE
            ELSE \/ includes(toLowerCase(option.label), toLowerCase(inputValue))
                 \/ includes(toLowerCase(option.value), toLowerCase(inputValue))
    IN  filter(opts, {option \in Range(opts) : passes(option)})

Kinds == {"ComboBox", "SmartComboBox", "OperatorComboBox"}

\* combobox.tsx:45, smart-combobox.tsx:32  the default of the prop
enableLazyLoading == TRUE

\* combobox.tsx:49-53, smart-combobox.tsx:35-39, operator-combobox.tsx:35-37
\* the useState cells after construction.  searchTerm is the text of the
\* input: the cell searchTerm of ComboBox and OperatorComboBox, the cell
\* inputValue of SmartComboBox.  value is the prop, held by the parent.
\* timers are the setTimeout callbacks not yet run, oldest first, each with
\* the batchSize and filteredOptions.length its closure captured.
\* Bookkeeping, read by no handler: termChanged and closed of a timer say
\* what happened since it was scheduled, completions counts the callbacks
\* run since the text last changed, staleCompleted says that one of them
\* had been scheduled under an earlier text.
initialSelector(k, value) ==
    [isOpen |-> FALSE,
     searchTerm |-> IF k = "SmartComboBox" THEN value ELSE <<>>,
     highlightedIndex |-> -1,
     visibleCount |-> BatchSize,
     isLoading |-> FALSE,
     value |-> value,
     timers |-> <<>>,
     completions |-> 0,
     staleCompleted |-> FALSE,
     \* page.tsx:90-95  the parent's flag, written by onOpenChange
     parentOpen |-> FALSE]

(***************************************************************************)
(* The page: state after construction and event handlers                   *)
(***************************************************************************)
NotCalled == [type |-> "not called"]

\* page.tsx:102
initialExpression ==
    [leftTag |-> <<>>, operator |-> "=", rightValue |-> <<>>,
     calculation |-> [leftTag |-> <<>>, operator |-> "+", rightValue |-> <<>>]]

\* page.tsx:89-111
Init ==
    /\ customTags = generateDefaultTags
    /\ expression = initialExpression
    /\ valueMode = "value"
    /\ val = <<>>
    /\ simpleAnalysis = NotCalled
    /\ valueAnalysis = NotCalled
    /\ component = "SmartComboBox"
    /\ optionsProp = <<>>
    /\ selector = initialSelector("SmartComboBox", <<>>)

\* what a SmartComboBox can hand to onChange: the text typed into its input
\* (smart-combobox.tsx:126), the id of a clicked or entered option
\* (smart-combobox.tsx:165-191) or '' from the clear button (:222)
SelectorValues ==
    Strings(Alphabet, MaxTyped) \cup {availableTags[i].value : i \in 1..Len(availableTags)}

\* left tag onChange without the isValidTag test
leftTagOnChange_unchecked(value) == [expression EXCEPT !.leftTag = value]

\* page.tsx:464  left tag onChange: the expression it leaves
leftTagOnChange(value) ==
    LET isValidTag == tagExists(availableTags, value)
    IN  IF isValidTag \/ value = <<>>
        THEN [expression EXCEPT !.leftTag = value]
        ELSE expression

LeftTagOnChange(value) ==
    /\ expression' = leftTagOnChange(value)
    /\ UNCHANGED <<customTags, valueMode, classifyVars, selectorVars>>

\* page.tsx:483-486  what the comparison OperatorComboBox hands to onChange
OperatorCommits == {word(value) : value \in OperatorComboBox_committed(OperatorOptions)}

\* page.tsx:568-571  what the arithmetic OperatorComboBox hands to onChange
CalcOperatorCommits == {word(value) : value \in OperatorComboBox_committed(CalcOperatorOptions)}

\* page.tsx:486  operator onChange; an OperatorComboBox commits option ids
OperatorOnChange(value) ==
    /\ expression' = [expression EXCEPT !.operator = value]
    /\ UNCHANGED <<customTags, valueMode, classifyVars, selectorVars>>

\* the Value button that also discards the stored calculation
ValueButton_resetsCalculation ==
    /\ valueMode' = "value"
    /\ expression' = [expression EXCEPT !.rightValue = <<>>,
                                        !.calculation = initialExpression.calculation]
    /\ UNCHANGED <<customTags, classifyVars, selectorVars>>

\* page.tsx:500  the Value button
ValueButton ==
    /\ valueMode' = "value"
    /\ expression' = [expression EXCEPT !.rightValue = <<>>]
    /\ UNCHANGED <<customTags, classifyVars, selectorVars>>

\* page.tsx:513  the Calculation button
CalculationButton ==
    /\ valueMode' = "calculation"
    /\ expression' = [expression EXCEPT !.rightValue = <<>>]
    /\ UNCHANGED <<customTags, classifyVars, selectorVars>>

\* page.tsx:529-533  right value onChange, rendered in value mode
RightValueOnChange(value) ==
    /\ valueMode = "value"
    /\ expression' = [expression EXCEPT !.rightValue = value]
    /\ UNCHANGED <<customTags, valueMode, classifyVars, selectorVars>>

\* page.tsx:551  calculation left tag onChange: the expression it leaves
calcLeftTagOnChange(value) ==
    LET isValidTag == tagExists(availableTags, value)
    IN  IF isValidTag \/ value = <<>>
        THEN [expression EXCEPT !.calculation.leftTag = value]
        ELSE expression

\* page.tsx:548  the selector is rendered in calculation mode
CalcLeftTagOnChange(value) ==
    /\ valueMode = "calculation"
    /\ expression' = calcLeftTagOnChange(value)
    /\ UNCHANGED <<customTags, valueMode, classifyVars, selectorVars>>

\* page.tsx:571  calculation operator onChange
CalcOperatorOnChange(value) ==
    /\ valueMode = "calculation"
    /\ expression' = [expression EXCEPT !.calculation.operator = value]
    /\ UNCHANGED <<customTags, valueMode, classifyVars, selectorVars>>

\* page.tsx:585  calculation right value onChange
CalcRightValueOnChange(value) ==
    /\ valueMode = "calculation"
    /\ expression' = [expression EXCEPT !.calculation.rightValue = value]
    /\ UNCHANGED <<customTags, valueMode, classifyVars, selectorVars>>

\* page.tsx:601  the remove-calculation button, rendered in calculation mode
RemoveCalculation ==
    /\ valueMode = "calculation"
    /\ valueMode' = "value"
    /\ UNCHANGED <<customTags, expression, classifyVars, selectorVars>>

\* page.tsx:139-151  handleTagsChange: the expression it leaves
handleTagsChange(newTags) ==
    LET parsedTags == IF trim(newTags) # <<>> THEN parseTags(newTags) ELSE <<>>
    IN  IF Len(parsedTags) > 0
        THEN [expression EXCEPT
                 !.leftTag = parsedTags[1],
                 !.rightValue = <<>>,
                 !.calculation = [leftTag |-> parsedTags[1],
                                  operator |-> "+",
                                  rightValue |-> <<>>]]
        ELSE expression

\* page.tsx:165  Save Changes in the configuration dialog calls
\* handleTagsChange (page.tsx:137) with the text of its textarea
handleSaveTags(tempCustomTags) ==
    /\ customTags' = tempCustomTags
    /\ expression' = handleTagsChange(tempCustomTags)
    /\ UNCHANGED <<valueMode, classifyVars, selectorVars>>

Next ==
    \/ \E value \in SelectorValues : LeftTagOnChange(value)
    \/ \E value \in OperatorCommits : OperatorOnChange(value)
    \/ ValueButton
    \/ CalculationButton
    \/ \E value \in SelectorValues : RightValueOnChange(value)
    \/ \E value \in SelectorValues : CalcLeftTagOnChange(value)
    \/ \E value \in CalcOperatorCommits : CalcOperatorOnChange(value)
    \/ \E value \in SelectorValues : CalcRightValueOnChange(value)
    \/ RemoveCalculation
    \/ \E tempCustomTags \in TagTexts : handleSaveTags(tempCustomTags)

Spec == Init /\ [][Next]_vars

(***************************************************************************)
(* The classifiers as functions of their argument and the reference set    *)
(***************************************************************************)
ClassifyInit ==
    /\ customTags \in TagTexts
    /\ expression = initialExpression
    /\ valueMode = "value"
    /\ val \in Strings(ClassifyAlphabet, MaxLen)
    /\ simpleAnalysis = NotCalled
    /\ valueAnalysis = NotCalled
    /\ component = "SmartComboBox"
    /\ optionsProp = <<>>
    /\ selector = initialSelector("SmartComboBox", <<>>)

\* a call of analyzeSimpleValue (page.tsx:211)
CallAnalyzeSimpleValue ==
    /\ simpleAnalysis = NotCalled
    /\ simpleAnalysis' = analyzeSimpleValue(val)
    /\ UNCHANGED <<pageVars, selectorVars, val, valueAnalysis>>

\* a call of analyzeValue by a SmartComboBox of the page, whose options are
\* availableTags (smart-combobox.tsx:71, page.tsx:462)
CallAnalyzeValue ==
    /\ valueAnalysis = NotCalled
    /\ valueAnalysis' = analyzeValue(availableTags, val)
    /\ UNCHANGED <<pageVars, selectorVars, val, simpleAnalysis>>

ClassifyNext == CallAnalyzeSimpleValue \/ CallAnalyzeValue

ClassifySpec == ClassifyInit /\ [][ClassifyNext]_vars

(***************************************************************************)
(* A selector instance: what it renders                                    *)
(***************************************************************************)
\* combobox.tsx:61, smart-combobox.tsx:43, operator-combobox.tsx:44
filteredOptions(sel) ==
    CASE component = "ComboBox" ->
             ComboBox_filteredOptions(optionsProp, sel.searchTerm)
      [] component = "SmartComboBox" ->
             SmartComboBox_filteredOptions(optionsProp, sel.searchTerm)
      [] component = "OperatorComboBox" ->
             OperatorComboBox_filteredOptions(optionsProp, sel.searchTerm)

\* combobox.tsx:67, smart-combobox.tsx:55; OperatorComboBox renders every
\* filtered option (operator-combobox.tsx:204)
visibleOptions(sel) ==
    IF component # "OperatorComboBox" /\ enableLazyLoading
    THEN SubSeq(filteredOptions(sel), 1,
                Min({sel.visibleCount, Len(filteredOptions(sel))}))
    ELSE filteredOptions(sel)

\* combobox.tsx:72, smart-combobox.tsx:59
hasMoreItems(sel) ==
    /\ component # "OperatorComboBox"
    /\ enableLazyLoading
    /\ sel.visibleCount < Len(filteredOptions(sel))

\* the search input is in the document: always in SmartComboBox
\* (smart-combobox.tsx:199), while open in the other two (combobox.tsx:211,
\* operator-combobox.tsx:162)
inputRendered(sel) == component = "SmartComboBox" \/ sel.isOpen

(***************************************************************************)
(* A selector instance: lazy loading                                       *)
(***************************************************************************)
\* loadMoreItems without the test of isLoading
loadMoreItems_unguarded(sel) ==
    IF hasMoreItems(sel)
    THEN [sel EXCEPT !.isLoading = TRUE,
                     !.timers = Append(@, [batchSize |-> BatchSize,
                                           length |-> Len(filteredOptions(sel)),
                                           termChanged |-> FALSE,
                                           closed |-> FALSE])]
    ELSE sel

\* loadMoreItems without the test of hasMoreItems
loadMoreItems_ignoresTotal(sel) ==
    IF ~sel.isLoading
    THEN [sel EXCEPT !.isLoading = TRUE,
                     !.timers = Append(@, [batchSize |-> BatchSize,
                                           length |-> Len(filteredOptions(sel)),
                                           termChanged |-> FALSE,
                                           closed |-> FALSE])]
    ELSE sel

\* loadMoreItems that leaves isLoading false
loadMoreItems_noFlag(sel) ==
    IF hasMoreItems(sel) /\ ~sel.isLoading
    THEN [sel EXCEPT !.timers = Append(@, [batchSize |-> BatchSize,
                                           length |-> Len(filteredOptions(sel)),
                                           termChanged |-> FALSE,
                                           closed |-> FALSE])]
    ELSE sel

\* combobox.tsx:94, smart-combobox.tsx:90  setTimeout keeps no handle: the
\* callback is scheduled with what the closure holds and is never cleared
loadMoreItems(sel) ==
    IF hasMoreItems(sel) /\ ~sel.isLoading
    THEN [sel EXCEPT !.isLoading = TRUE,
                     !.timers = Append(@, [batchSize |-> BatchSize,
                                           length |-> Len(filteredOptions(sel)),
                                           termChanged |-> FALSE,
                                           closed |-> FALSE])]
    ELSE sel

\* the timer callback that leaves isLoading true
timerCallback_keepsLoading(sel) ==
    LET timer == Head(sel.timers)
    IN  [sel EXCEPT !.visibleCount = Min({@ + timer.batchSize, timer.length}),
                    !.timers = Tail(@),
                    !.completions = @ + 1,
                    !.staleCompleted = @ \/ timer.termChanged]

\* the timer callback that adds two batches
timerCallback_twoBatches(sel) ==
    LET timer == Head(sel.timers)
    IN  [sel EXCEPT !.visibleCount =
                        Min({@ + 2 * timer.batchSize, timer.length}),
                    !.isLoading = FALSE,
                    !.timers = Tail(@),
                    !.completions = @ + 1,
                    !.staleCompleted = @ \/ timer.termChanged]

\* combobox.tsx:98-101, smart-combobox.tsx:94-97  the oldest timer callback
timerCallback(sel) ==
    LET timer == Head(sel.timers)
    IN  [sel EXCEPT !.visibleCount = Min({@ + timer.batchSize, timer.length}),
                    !.isLoading = FALSE,
                    !.timers = Tail(@),
                    !.completions = @ + 1,
                    !.staleCompleted = @ \/ timer.termChanged]

(***************************************************************************)
(* A selector instance: the effects that follow a handler                  *)
(***************************************************************************)
\* bookkeeping after a handler took the instance from prev to next
recorded(prev, next) ==
    LET termChanged == next.searchTerm # prev.searchTerm
    IN  [next EXCEPT
            !.timers = [i \in 1..Len(next.timers) |->
                [next.timers[i] EXCEPT
                    !.termChanged = @ \/ termChanged,
                    !.closed = @ \/ ~next.isOpen]],
            !.completions = IF termChanged THEN 0 ELSE @,
            !.staleCompleted = IF termChanged THEN FALSE ELSE @]

\* the effects without the reset of visibleCount
effects_noReset(prev, next) ==
    LET synced == IF component = "SmartComboBox" /\ next.value # prev.value
                  THEN [next EXCEPT !.searchTerm = next.value]
                  ELSE next
        reset == IF synced.searchTerm = prev.searchTerm THEN synced
                 ELSE [synced EXCEPT !.highlightedIndex = -1]
    IN  recorded(prev, reset)

\* the effects that also reset visibleCount when the selector closes
effects_resetOnClose(prev, next) ==
    LET synced == IF component = "SmartComboBox" /\ next.value # prev.value
                  THEN [next EXCEPT !.searchTerm = next.value]
                  ELSE next
        reset == IF synced.searchTerm = prev.searchTerm
                 THEN IF prev.isOpen /\ ~synced.isOpen
                      THEN [synced EXCEPT !.visibleCount = BatchSize]
                      ELSE synced
                 ELSE IF component = "OperatorComboBox"
                 THEN [synced EXCEPT !.highlightedIndex = -1]
                 ELSE [synced EXCEPT !.highlightedIndex = -1,
                                     !.visibleCount = BatchSize]
    IN  recorded(prev, reset)

\* the effects without the reset of highlightedIndex
effects_keepsHighlight(prev, next) ==
    LET synced == IF component = "SmartComboBox" /\ next.value # prev.value
                  THEN [next EXCEPT !.searchTerm = next.value]
                  ELSE next
        reset == IF synced.searchTerm = prev.searchTerm THEN synced
                 ELSE IF component = "OperatorComboBox" THEN synced
                 ELSE [synced EXCEPT !.visibleCount = BatchSize]
    IN  recorded(prev, reset)

\* combobox.tsx:78, smart-combobox.tsx:74-81, operator-combobox.tsx:61  the
\* effects whose dependencies a handler changed, run when its updates are
\* rendered: SmartComboBox copies a new value prop into inputValue, and a new
\* text of the input resets highlightedIndex and, with lazy loading,
\* visibleCount
effects(prev, next) ==
    LET synced == IF component = "SmartComboBox" /\ next.value # prev.value
                  THEN [next EXCEPT !.searchTerm = next.value]
                  ELSE next
        reset == IF synced.searchTerm = prev.searchTerm THEN synced
                 ELSE IF component = "OperatorComboBox"
                 THEN [synced EXCEPT !.highlightedIndex = -1]
                 ELSE [synced EXCEPT !.highlightedIndex = -1,
                                     !.visibleCount = BatchSize]
    IN  recorded(prev, reset)

(***************************************************************************)
(* A selector instance: event handlers, as the state they leave before the *)
(* effects run                                                             *)
(***************************************************************************)
\* the keys the handlers name, and Home for every key they do not name
Keys == {"Escape", "ArrowDown", "ArrowUp", "Enter", " ", "Home"}

\* combobox.tsx:138
ComboBox_handleKeyDown(sel, key) ==
    LET length == Len(visibleOptions(sel))
        newIndex == IF sel.highlightedIndex < length - 1
                    THEN sel.highlightedIndex + 1
                    ELSE 0
    IN  IF ~sel.isOpen
        THEN IF key \in {"Enter", " ", "ArrowDown"}
             THEN [sel EXCEPT !.isOpen = TRUE, !.searchTerm = <<>>]
             ELSE sel
        ELSE CASE key = "Escape" ->
                      [sel EXCEPT !.isOpen = FALSE, !.searchTerm = <<>>,
                                  !.parentOpen = FALSE]
               [] key = "ArrowDown" ->
                      [(IF newIndex >= length - 3 /\ hasMoreItems(sel)
                        THEN loadMoreItems(sel)
                        ELSE sel) EXCEPT !.highlightedIndex = newIndex]
               [] key = "ArrowUp" ->
                      [sel EXCEPT !.highlightedIndex =
                          IF @ > 0 THEN @ - 1 ELSE length - 1]
               [] key = "Enter" ->
                      IF sel.highlightedIndex >= 0 /\ sel.highlightedIndex < length
                      THEN [sel EXCEPT
                               !.value = visibleOptions(sel)[sel.highlightedIndex + 1].value,
                               !.isOpen = FALSE,
                               !.searchTerm = <<>>,
                               !.parentOpen = FALSE]
                      ELSE sel
               [] OTHER -> sel

\* smart-combobox.tsx:133
SmartComboBox_handleKeyDown(sel, key) ==
    LET length == Len(visibleOptions(sel))
        newIndex == IF sel.highlightedIndex < length - 1
                    THEN sel.highlightedIndex + 1
                    ELSE 0
    IN  IF ~sel.isOpen
        THEN IF key = "ArrowDown"
             THEN [sel EXCEPT !.isOpen = TRUE, !.parentOpen = TRUE]
             ELSE sel
        ELSE CASE key = "Escape" ->
                      [sel EXCEPT !.isOpen = FALSE, !.parentOpen = FALSE]
               [] key = "ArrowDown" ->
                      [(IF newIndex >= length - 3 /\ hasMoreItems(sel)
                        THEN loadMoreItems(sel)
                        ELSE sel) EXCEPT !.highlightedIndex = newIndex]
               [] key = "ArrowUp" ->
                      [sel EXCEPT !.highlightedIndex =
                          IF @ > 0 THEN @ - 1 ELSE length - 1]
               [] key = "Enter" ->
                      IF sel.highlightedIndex >= 0 /\ sel.highlightedIndex < length
                      THEN [sel EXCEPT
                               !.searchTerm = visibleOptions(sel)[sel.highlightedIndex + 1].value,
                               !.value = visibleOptions(sel)[sel.highlightedIndex + 1].value,
                               !.isOpen = FALSE,
                               !.parentOpen = FALSE]
                      ELSE [sel EXCEPT !.isOpen = FALSE, !.parentOpen = FALSE]
               [] OTHER -> sel

\* operator-combobox.tsx:90
OperatorComboBox_handleKeyDown(sel, key) ==
    LET length == Len(filteredOptions(sel))
    IN  IF ~sel.isOpen
        THEN IF key \in {"Enter", " ", "ArrowDown"}
             THEN [sel EXCEPT !.isOpen = TRUE, !.searchTerm = <<>>]
             ELSE sel
        ELSE CASE key = "Escape" ->
                      [sel EXCEPT !.isOpen = FALSE, !.searchTerm = <<>>,
                                  !.parentOpen = FALSE]
               [] key = "ArrowDown" ->
                      [sel EXCEPT !.highlightedIndex =
                          IF @ < length - 1 THEN @ + 1 ELSE 0]
               [] key = "ArrowUp" ->
                      [sel EXCEPT !.highlightedIndex =
                          IF @ > 0 THEN @ - 1 ELSE length - 1]
               [] key = "Enter" ->
                      IF sel.highlightedIndex >= 0 /\ sel.highlightedIndex < length
                      THEN [sel EXCEPT
                               !.value = filteredOptions(sel)[sel.highlightedIndex + 1].value,
                               !.isOpen = FALSE,
                               !.searchTerm = <<>>]
                      ELSE sel
               [] OTHER -> sel

\* the key handler that keeps the search text on Escape
handleKeyDown_escapeKeepsTerm(sel, key) ==
    IF key = "Escape" /\ sel.isOpen
    THEN [sel EXCEPT !.isOpen = FALSE, !.parentOpen = FALSE]
    ELSE CASE component = "ComboBox" -> ComboBox_handleKeyDown(sel, key)
           [] component = "SmartComboBox" -> SmartComboBox_handleKeyDown(sel, key)
           [] component = "OperatorComboBox" -> OperatorComboBox_handleKeyDown(sel, key)

\* the key handler whose Space closes an open selector
handleKeyDown_spaceCloses(sel, key) ==
    IF key = " " /\ sel.isOpen
    THEN [sel EXCEPT !.isOpen = FALSE]
    ELSE CASE component = "ComboBox" -> ComboBox_handleKeyDown(sel, key)
           [] component = "SmartComboBox" -> SmartComboBox_handleKeyDown(sel, key)
           [] component = "OperatorComboBox" -> OperatorComboBox_handleKeyDown(sel, key)

\* the key handler whose ArrowUp asks for more items as ArrowDown does
handleKeyDown_arrowUpLoads(sel, key) ==
    LET length == Len(visibleOptions(sel))
        newIndex == IF sel.highlightedIndex > 0
                    THEN sel.highlightedIndex - 1
                    ELSE length - 1
    IN  IF key = "ArrowUp" /\ sel.isOpen
        THEN [(IF newIndex >= length - 3 /\ hasMoreItems(sel)
               THEN loadMoreItems(sel)
               ELSE sel) EXCEPT !.highlightedIndex = newIndex]
        ELSE CASE component = "ComboBox" -> ComboBox_handleKeyDown(sel, key)
               [] component = "SmartComboBox" -> SmartComboBox_handleKeyDown(sel, key)
               [] component = "OperatorComboBox" -> OperatorComboBox_handleKeyDown(sel, key)

\* the key handler whose ArrowUp stops at the first option
handleKeyDown_arrowUpStops(sel, key) ==
    IF key = "ArrowUp" /\ sel.isOpen
    THEN [sel EXCEPT !.highlightedIndex = IF @ > 0 THEN @ - 1 ELSE @]
    ELSE CASE component = "ComboBox" -> ComboBox_handleKeyDown(sel, key)
           [] component = "SmartComboBox" -> SmartComboBox_handleKeyDown(sel, key)
           [] component = "OperatorComboBox" -> OperatorComboBox_handleKeyDown(sel, key)

\* the key handler whose Enter closes a strict selector that has no
\* highlighted option
handleKeyDown_enterAlwaysCloses(sel, key) ==
    IF key = "Enter" /\ sel.isOpen /\ sel.highlightedIndex < 0
    THEN [sel EXCEPT !.isOpen = FALSE]
    ELSE CASE component = "ComboBox" -> ComboBox_handleKeyDown(sel, key)
           [] component = "SmartComboBox" -> SmartComboBox_handleKeyDown(sel, key)
           [] component = "OperatorComboBox" -> OperatorComboBox_handleKeyDown(sel, key)

\* combobox.tsx:218, smart-combobox.tsx:204, operator-combobox.tsx:169
\* onKeyDown of the input
handleKeyDown(sel, key) ==
    CASE component = "ComboBox" -> ComboBox_handleKeyDown(sel, key)
      [] component = "SmartComboBox" -> SmartComboBox_handleKeyDown(sel, key)
      [] component = "OperatorComboBox" -> OperatorComboBox_handleKeyDown(sel, key)

\* the input handler of a SmartComboBox that keeps the typed text to itself
\* until Enter
handleInputChange_noCommit(sel, newValue) ==
    IF component = "SmartComboBox"
    THEN [sel EXCEPT !.searchTerm = newValue, !.highlightedIndex = -1]
    ELSE [sel EXCEPT !.searchTerm = newValue]

\* combobox.tsx:217, operator-combobox.tsx:168 (setSearchTerm), and
\* smart-combobox.tsx:126 (handleInputChange)  onChange of the input
handleInputChange(sel, newValue) ==
    IF component = "SmartComboBox"
    THEN [sel EXCEPT !.searchTerm = newValue,
                     !.value = newValue,
                     !.highlightedIndex = -1]
    ELSE [sel EXCEPT !.searchTerm = newValue]

\* the click handler that commits the highlighted option when there is one
handleOptionClick_commitsHighlighted(sel, optionValue) ==
    LET chosen == IF /\ sel.highlightedIndex >= 0
                     /\ sel.highlightedIndex < Len(visibleOptions(sel))
                  THEN visibleOptions(sel)[sel.highlightedIndex + 1].value
                  ELSE optionValue
    IN  IF component = "SmartComboBox"
        THEN [sel EXCEPT !.searchTerm = chosen, !.value = chosen,
                         !.isOpen = FALSE, !.parentOpen = FALSE]
        ELSE [sel EXCEPT !.value = chosen, !.isOpen = FALSE,
                         !.searchTerm = <<>>, !.parentOpen = FALSE]

\* combobox.tsx:192, smart-combobox.tsx:186, operator-combobox.tsx:138
handleOptionClick(sel, optionValue) ==
    IF component = "SmartComboBox"
    THEN [sel EXCEPT !.searchTerm = optionValue,
                     !.value = optionValue,
                     !.isOpen = FALSE,
                     !.parentOpen = FALSE]
    ELSE [sel EXCEPT !.value = optionValue,
                     !.isOpen = FALSE,
                     !.searchTerm = <<>>,
                     !.parentOpen = FALSE]

\* combobox.tsx:204 (click on the field), smart-combobox.tsx:252 (click on
\* the chevron), operator-combobox.tsx:148 (toggleOpen)
toggleOpen(sel) ==
    LET newIsOpen == ~sel.isOpen
    IN  [sel EXCEPT !.isOpen = newIsOpen, !.parentOpen = newIsOpen]

\* smart-combobox.tsx:205  onFocus of the input
onFocus(sel) == [sel EXCEPT !.isOpen = TRUE, !.parentOpen = TRUE]

\* the clear button that also closes
clearOnClick_closes(sel) ==
    [sel EXCEPT !.searchTerm = <<>>, !.value = <<>>, !.isOpen = FALSE]

\* combobox.tsx:240, smart-combobox.tsx:222  the clear button
clearOnClick(sel) ==
    [sel EXCEPT !.searchTerm = <<>>, !.value = <<>>]

\* the overlay that only closes
overlayOnClick_keepsTerm(sel) ==
    [sel EXCEPT !.isOpen = FALSE,
                !.parentOpen = IF component = "ComboBox" THEN FALSE ELSE @]

\* combobox.tsx:314, smart-combobox.tsx:315, operator-combobox.tsx:235  the
\* overlay behind an open list
overlayOnClick(sel) ==
    CASE component = "ComboBox" ->
             [sel EXCEPT !.isOpen = FALSE, !.searchTerm = <<>>,
                         !.parentOpen = FALSE]
      [] component = "SmartComboBox" -> [sel EXCEPT !.isOpen = FALSE]
      [] component = "OperatorComboBox" ->
             [sel EXCEPT !.isOpen = FALSE, !.searchTerm = <<>>]

\* operator-combobox.tsx:70  mousedown on the document outside the container
handleClickOutside(sel) ==
    IF sel.isOpen
    THEN [sel EXCEPT !.isOpen = FALSE, !.searchTerm = <<>>,
                     !.parentOpen = FALSE]
    ELSE sel

(***************************************************************************)
(* A selector instance: state after construction and events                *)
(***************************************************************************)
\* the value the parent holds when the instance is constructed: none for a
\* list selector, '=' for the comparison operator (page.tsx:104)
SelectorInit ==
    /\ customTags = generateDefaultTags
    /\ expression = initialExpression
    /\ valueMode = "value"
    /\ val = <<>>
    /\ simpleAnalysis = NotCalled
    /\ valueAnalysis = NotCalled
    /\ component \in Kinds
    /\ optionsProp = IF component = "OperatorComboBox"
                     THEN OperatorOptions
                     ELSE ListOptions
    /\ selector = initialSelector(component,
                      IF component = "OperatorComboBox" THEN <<"=">> ELSE <<>>)

\* texts typed into the search input
SearchTerms == Strings(SearchAlphabet, MaxTyped)

\* a key pressed in the input
KeyDown(key) ==
    /\ inputRendered(selector)
    /\ selector' = effects(selector, handleKeyDown(selector, key))
    /\ UNCHANGED <<pageVars, classifyVars, component, optionsProp>>

\* text typed into the input
InputChange(newValue) ==
    /\ inputRendered(selector)
    /\ newValue # selector.searchTerm
    /\ selector' = effects(selector, handleInputChange(selector, newValue))
    /\ UNCHANGED <<pageVars, classifyVars, component, optionsProp>>

\* a click on the index-th item of the open list (combobox.tsx:269-273)
OptionClick(index) ==
    /\ selector.isOpen
    /\ index \in 1..Len(visibleOptions(selector))
    /\ selector' = effects(selector,
           handleOptionClick(selector, visibleOptions(selector)[index].value))
    /\ UNCHANGED <<pageVars, classifyVars, component, optionsProp>>

\* a click on the field, or on the chevron of a SmartComboBox
ToggleClick ==
    /\ selector' = effects(selector, toggleOpen(selector))
    /\ UNCHANGED <<pageVars, classifyVars, component, optionsProp>>

\* the input of a SmartComboBox receives the focus
Focus ==
    /\ component = "SmartComboBox"
    /\ ~selector.isOpen
    /\ selector' = effects(selector, onFocus(selector))
    /\ UNCHANGED <<pageVars, classifyVars, component, optionsProp>>

\* a click on the clear button, rendered while there is a value
\* (combobox.tsx:238, smart-combobox.tsx:220)
ClearClick ==
    /\ component # "OperatorComboBox"
    /\ selector.value # <<>>
    /\ selector' = effects(selector, clearOnClick(selector))
    /\ UNCHANGED <<pageVars, classifyVars, component, optionsProp>>

\* a click on the overlay, rendered while open (combobox.tsx:311)
OverlayClick ==
    /\ selector.isOpen
    /\ selector' = effects(selector, overlayOnClick(selector))
    /\ UNCHANGED <<pageVars, classifyVars, component, optionsProp>>

\* a mousedown outside the container of an open OperatorComboBox
ClickOutside ==
    /\ component = "OperatorComboBox"
    /\ selector.isOpen
    /\ selector' = effects(selector, handleClickOutside(selector))
    /\ UNCHANGED <<pageVars, classifyVars, component, optionsProp>>

\* combobox.tsx:109, smart-combobox.tsx:102  the observer of the last item of
\* the open list reports it in view
LastItemVisible ==
    /\ selector.isOpen
    /\ Len(visibleOptions(selector)) > 0
    /\ hasMoreItems(selector)
    /\ selector' = effects(selector, loadMoreItems(selector))
    /\ UNCHANGED <<pageVars, classifyVars, component, optionsProp>>

\* the oldest scheduled callback runs
TimerFires ==
    /\ selector.timers # <<>>
    /\ selector' = effects(selector, timerCallback(selector))
    /\ UNCHANGED <<pageVars, classifyVars, component, optionsProp>>

SelectorNext ==
    \/ \E key \in Keys : KeyDown(key)
    \/ \E newValue \in SearchTerms : InputChange(newValue)
    \/ \E index \in 1..Len(optionsProp) : OptionClick(index)
    \/ ToggleClick
    \/ Focus
    \/ ClearClick
    \/ OverlayClick
    \/ ClickOutside
    \/ LastItemVisible
    \/ TimerFires

SelectorSpec == SelectorInit /\ [][SelectorNext]_vars

\* combobox.tsx:98, smart-combobox.tsx:94  a callback handed to setTimeout
\* with a delay of 800 ms runs once the delay has passed: nothing clears it
\* and no handler blocks the event loop
SelectorFairSpec ==
    SelectorInit /\ [][SelectorNext]_vars /\ WF_vars(TimerFires)

(***************************************************************************)
(* Properties                                                              *)
(***************************************************************************)
OptionIds(options) == {options[i].value : i \in 1..Len(options)}

\* C1: a raw string classifies as a reference (type 'tag') if and only if it
\* is exactly the id of an option of the reference set; the match comes
\* before the numeric check, so a numeric-looking id is a reference.
C1_ReferenceIffExactId ==
    /\ simpleAnalysis # NotCalled =>
          /\ simpleAnalysis.type = "tag" <=> val \in OptionIds(availableTags)
          /\ simpleAnalysis.type = "tag" => simpleAnalysis.value = Str(val)
    /\ valueAnalysis # NotCalled =>
          (valueAnalysis.type = "tag" <=> val \in OptionIds(availableTags))

\* the id "4" of the reference set "T, 4" has been classified by both
C1_Witness ==
    /\ val = <<"4">>
    /\ val \in OptionIds(availableTags)
    /\ simpleAnalysis = [type |-> "tag", value |-> Str(<<"4">>)]
    /\ valueAnalysis = [type |-> "tag"]

\* C2: a raw string that is no option id classifies as a number, with the
\* parsed value, if and only if it is non-empty after trimming and parses
\* as a number; otherwise as a string constant holding the raw string.
C2_NumberIffParses ==
    val \notin OptionIds(availableTags) =>
        LET numeric == trim(val) # <<>> /\ ~isNaN(Number(val))
        IN  /\ simpleAnalysis # NotCalled =>
                  simpleAnalysis =
                      IF numeric
                      THEN [type |-> "constant", value |-> Num(Number(val).n)]
                      ELSE [type |-> "constant", value |-> Str(val)]
            /\ valueAnalysis # NotCalled =>
                  valueAnalysis =
                      [type |-> IF numeric THEN "number" ELSE "string"]

\* " 4" outside the reference set is the number 4, and so is not its raw text
C2_Witness ==
    /\ val = <<" ", "4">>
    /\ val \notin OptionIds(availableTags)
    /\ simpleAnalysis = [type |-> "constant", value |-> Num(4)]
    /\ valueAnalysis = [type |-> "number"]

\* the expected classification of a raw string, the reference kind being
\* written kind: a reference for an option id, else the parsed number of
\* numeric input, else the raw string
Classified(raw, kind) ==
    IF raw \in OptionIds(availableTags)
    THEN [type |-> kind, value |-> Str(raw)]
    ELSE IF trim(raw) # <<>> /\ ~isNaN(Number(raw))
         THEN [type |-> "constant", value |-> Num(Number(raw).n)]
         ELSE [type |-> "constant", value |-> Str(raw)]

Tag1 == AVAILABLE_TAGS[1].value
Tag2 == AVAILABLE_TAGS[2].value

\* C3 as stated: in simple-value mode the JSON tree is a comparison whose
\* left node and reference right node have type "reference".
C3_Original ==
    valueMode = "value" =>
        generateJSON =
            [type |-> "comparison",
             left |-> [type |-> "reference", value |-> Str(expression.leftTag)],
             operator |-> expression.operator,
             right |-> Classified(expression.rightValue, "reference")]

\* C3 amended: in simple-value mode the JSON tree is {type:"comparison",
\* left:{type:"tag", value: leftTag}, operator: the operator unmapped,
\* right: R}, R being {type:"tag", value: rightValue} for a reference id and
\* {type:"constant", value: v} otherwise, v the parsed number or the raw string.
C3_JSONSimpleValue ==
    valueMode = "value" =>
        generateJSON =
            [type |-> "comparison",
             left |-> [type |-> "tag", value |-> Str(expression.leftTag)],
             operator |-> expression.operator,
             right |-> Classified(expression.rightValue, "tag")]

\* Tag1 = "4" with the default tags compiles to a constant 4 under operator "="
C3_Witness ==
    /\ valueMode = "value"
    /\ expression.leftTag = Tag1
    /\ expression.operator = "="
    /\ expression.rightValue = <<"4">>
    /\ generateJSON.operator = "="
    /\ generateJSON.right = [type |-> "constant", value |-> Num(4)]

\* C4: the JSONLogic rule has exactly one key, the operator with "=" mapped
\* to "==" and the other five unchanged, whose value is a list of two
\* elements, the first being {"var": leftTag}.
C4_JSONLogicOperator ==
    LET rule == generateJSONLogic
        key == IF expression.operator = "=" THEN "==" ELSE expression.operator
    IN  /\ expression.operator \in {"=", "!=", ">", "<", ">=", "<="}
        /\ DOMAIN rule = {key}
        /\ Len(rule[key]) = 2
        /\ rule[key][1] = [var |-> Str(expression.leftTag)]

\* Tag1 under "=" compiles to the key "=="
C4_Witness ==
    /\ expression.leftTag = Tag1
    /\ expression.operator = "="
    /\ DOMAIN generateJSONLogic = {"=="}
    /\ generateJSONLogic["=="][1] = [var |-> Str(Tag1)]

\* the second operand of the JSONLogic rule
RightOperand == generateJSONLogic[operatorMap(expression.operator)][2]

\* C5: in simple-value mode the second operand is {"var": rightValue} for a
\* reference and the bare number or string otherwise.
C5_JSONLogicSimpleOperand ==
    valueMode = "value" =>
        RightOperand =
            IF expression.rightValue \in OptionIds(availableTags)
            THEN [var |-> Str(expression.rightValue)]
            ELSE Classified(expression.rightValue, "tag").value

\* the tag "4" as right value is rendered as {"var": "4"}
C5_Witness ==
    /\ valueMode = "value"
    /\ expression.rightValue = <<"4">>
    /\ <<"4">> \in OptionIds(availableTags)
    /\ expression.operator = "!="
    /\ generateJSONLogic =
           ("!=" :> <<[var |-> Str(expression.leftTag)], [var |-> Str(<<"4">>)]>>)

\* C6: with a calculation active the second operand is
\* {calcOperator: [{"var": calc.leftTag}, r]}, the arithmetic symbol unchanged
\* and r rendered from calc.rightValue; rightValue has no part in it.
C6_JSONLogicCalculation ==
    valueMode = "calculation" =>
        LET calc == expression.calculation
            r == IF calc.rightValue \in OptionIds(availableTags)
                 THEN [var |-> Str(calc.rightValue)]
                 ELSE Classified(calc.rightValue, "tag").value
        IN  /\ calc.operator \in {"+", "-", "*", "/"}
            /\ RightOperand = (calc.operator :> <<[var |-> Str(calc.leftTag)], r>>)

\* Tag1 > (Tag2 + 4)
C6_Witness ==
    /\ valueMode = "calculation"
    /\ expression.leftTag = Tag1
    /\ expression.operator = ">"
    /\ expression.calculation =
           [leftTag |-> Tag2, operator |-> "+", rightValue |-> <<"4">>]
    /\ generateJSONLogic =
           (">" :> <<[var |-> Str(Tag1)],
                     ("+" :> <<[var |-> Str(Tag2)], Num(4)>>)>>)

\* C7 as stated: with a calculation active the right field of the JSON tree
\* is a calculation node whose left node has type "reference".
C7_Original ==
    valueMode = "calculation" =>
        LET calc == expression.calculation
        IN  generateJSON.right =
                [type |-> "calculation",
                 value |-> [left |-> [type |-> "reference",
                                      value |-> Str(calc.leftTag)],
                            operator |-> calc.operator,
                            right |-> Classified(calc.rightValue, "reference")]]

\* C7 amended: with a calculation active the right field of the JSON tree is
\* {type:"calculation", value:{left:{type:"tag", value: calc.leftTag},
\* operator: calc.operator, right: C}}, C the tag/constant classification of
\* calc.rightValue, whatever rightValue is.
C7_JSONCalculation ==
    valueMode = "calculation" =>
        LET calc == expression.calculation
        IN  generateJSON.right =
                [type |-> "calculation",
                 value |-> [left |-> [type |-> "tag",
                                      value |-> Str(calc.leftTag)],
                            operator |-> calc.operator,
                            right |-> Classified(calc.rightValue, "tag")]]

\* a calculation T * T over the tags "T, 4"
C7_Witness ==
    /\ valueMode = "calculation"
    /\ expression.calculation =
           [leftTag |-> <<"T">>, operator |-> "*", rightValue |-> <<"T">>]
    /\ <<"T">> \in OptionIds(availableTags)
    /\ generateJSON.right.value.right = [type |-> "tag", value |-> Str(<<"T">>)]

\* an operand that is an arithmetic JSONLogic rule
IsArithmeticRule(operand) ==
    DOMAIN operand \subseteq Range(CALC_OPERATORS)

\* C8: both compilers emit the calculation shape exactly when the entry mode
\* is 'calculation' and the simple-value shape exactly when it is 'value'.
C8_ShapeFollowsMode ==
    /\ valueMode \in {"value", "calculation"}
    /\ generateJSON.right.type = "calculation" <=> valueMode = "calculation"
    /\ generateJSON.right.type \in {"tag", "constant"} <=> valueMode = "value"
    /\ IsArithmeticRule(RightOperand) <=> valueMode = "calculation"

\* value mode with a filled stored calculation still emits the simple shape
C8_Witness ==
    /\ valueMode = "value"
    /\ expression.calculation.leftTag # <<>>
    /\ expression.calculation.rightValue # <<>>
    /\ expression.rightValue = <<>>
    /\ generateJSON.right = [type |-> "constant", value |-> Str(<<>>)]
    /\ ~IsArithmeticRule(RightOperand)

\* C9 as stated: handing a left tag selector a value that is no option id
\* leaves the expression unchanged.
C9_Original ==
    \A value \in SelectorValues :
        value \notin OptionIds(availableTags) =>
            /\ leftTagOnChange(value) = expression
            /\ valueMode = "calculation" =>
                   calcLeftTagOnChange(value) = expression

\* C9 amended: handing a left tag selector a non-empty value that is no
\* option id leaves the expression unchanged; the empty string is accepted
\* and empties that field only.
C9_InvalidTagRejected ==
    \A value \in SelectorValues :
        value \notin OptionIds(availableTags) =>
            /\ leftTagOnChange(value) =
                   IF value = <<>> THEN [expression EXCEPT !.leftTag = <<>>]
                   ELSE expression
            /\ valueMode = "calculation" =>
                   calcLeftTagOnChange(value) =
                       IF value = <<>>
                       THEN [expression EXCEPT !.calculation.leftTag = <<>>]
                       ELSE expression

\* a left tag is set and typing " " or an unknown name would be rejected
C9_Witness ==
    /\ expression.leftTag # <<>>
    /\ valueMode = "calculation"
    /\ expression.calculation.leftTag # <<>>
    /\ \E value \in SelectorValues :
           /\ value # <<>>
           /\ value \notin OptionIds(availableTags)
           /\ leftTagOnChange(value) = expression
           /\ calcLeftTagOnChange(value) = expression

\* C10: a change of the reference set leaves the expression with the first
\* reference of the new set as left tag, the operator "=" and an empty
\* right side.
C10_ResetOnTagsChange ==
    \A newTags \in TagTexts :
        LET tags == tagsOf(newTags)
            after == handleTagsChange(newTags)
        IN  tags # availableTags =>
                /\ Len(tags) > 0 => after.leftTag = tags[1].value
                /\ after.operator = "="
                /\ after.rightValue = <<>>


\* the option mentions the term: the lower-cased term occurs in the
\* lower-cased id, label or, where the option has one, display text
Mentions(option, term) ==
    \E field \in DOMAIN option :
        includes(toLowerCase(option[field]), toLowerCase(term))

\* list is exactly the elements of all at the indices kept, in the order
\* of all
KeepsInOrder(list, all, kept) ==
    /\ Len(list) = Cardinality(kept)
    /\ \A i \in kept : list[Cardinality({j \in kept : j <= i})] = all[i]

\* a SmartComboBox whose text is the id of one of its options
ExactIdTyped ==
    /\ component = "SmartComboBox"
    /\ selector.searchTerm # <<>>
    /\ \E i \in 1..Len(optionsProp) : optionsProp[i].value = selector.searchTerm

\* C11: the filtered options are exactly the options that mention the search
\* term, case-insensitively, in id, label or display text, in the order of
\* the options prop, which is left as it was handed in; an empty term keeps
\* every option.  (A SmartComboBox whose text is an option id is C12's case.)
C11_FilterIsSubstringMatch ==
    ~ExactIdTyped =>
        LET mentioning == {i \in 1..Len(optionsProp) :
                              Mentions(optionsProp[i], selector.searchTerm)}
        IN  /\ KeepsInOrder(filteredOptions(selector), optionsProp, mentioning)
            /\ selector.searchTerm = <<>> =>
                   filteredOptions(selector) = optionsProp
            /\ optionsProp \in {ListOptions, OperatorOptions}

\* a ComboBox filtered by 't' shows the four options that mention it, one of
\* them by its label only and two by an upper-case T
C11_Witness ==
    /\ component = "ComboBox"
    /\ selector.isOpen
    /\ selector.searchTerm = <<"t">>
    /\ Len(filteredOptions(selector)) = 4
    /\ filteredOptions(selector)[2].value = <<"4">>

\* C12: a SmartComboBox whose non-empty text is exactly the id of one of its
\* options keeps the whole options list, whatever the substring test would
\* keep; a ComboBox with the same search term keeps only what mentions it.
C12_ExactIdShowsAll ==
    /\ ExactIdTyped => filteredOptions(selector) = optionsProp
    /\ component = "ComboBox" =>
           LET mentioning == {i \in 1..Len(optionsProp) :
                                 Mentions(optionsProp[i], selector.searchTerm)}
           IN  KeepsInOrder(filteredOptions(selector), optionsProp, mentioning)

\* a SmartComboBox whose text '4' is an option id shows all five options,
\* where the substring test keeps three
C12_Witness ==
    /\ ExactIdTyped
    /\ selector.searchTerm = <<"4">>
    /\ filteredOptions(selector) = optionsProp
    /\ Len(ComboBox_filteredOptions(optionsProp, selector.searchTerm)) = 3
    /\ Len(optionsProp) = 5

\* the component loads its list in batches
LazyLoading == component # "OperatorComboBox" /\ enableLazyLoading

\* C13: visibleCount is batchSize while no load has completed since the
\* search text was set, and after k >= 1 completions of loads requested under
\* the present text it is min(batchSize * (k + 1), total), total being the
\* number of filtered options.
C13_VisibleCountAfterLoads ==
    (LazyLoading /\ ~selector.staleCompleted) =>
        /\ selector.completions = 0 => selector.visibleCount = BatchSize
        /\ selector.completions >= 1 =>
               selector.visibleCount =
                   Min({BatchSize * (selector.completions + 1),
                        Len(filteredOptions(selector))})

\* loads have completed and the last one was cut short by the total
C13_Witness ==
    /\ LazyLoading
    /\ ~selector.staleCompleted
    /\ selector.completions >= 1
    /\ selector.visibleCount = Len(filteredOptions(selector))
    /\ selector.visibleCount < BatchSize * (selector.completions + 1)

\* C14: a selector instance never has more than one scheduled load callback
\* outstanding.
C14_AtMostOneTimer == Len(selector.timers) <= 1

\* a callback is outstanding while the open list still has more to load
C14_Witness ==
    /\ Len(selector.timers) = 1
    /\ selector.isOpen
    /\ hasMoreItems(selector)

\* C15: isLoading is true exactly while a scheduled load callback is
\* outstanding.
C15_LoadingIffTimer == selector.isLoading <=> selector.timers # <<>>

\* a load is pending after an earlier one has completed
C15_Witness ==
    /\ selector.isLoading
    /\ selector.timers # <<>>
    /\ selector.completions >= 1

\* C16: loadMoreItems called while a load is pending, or while visibleCount
\* is at least the number of filtered options, leaves the instance as it is.
C16_LoadRequestIgnored ==
    (selector.isLoading \/ selector.visibleCount >= Len(filteredOptions(selector)))
        => loadMoreItems(selector) = selector

\* a load is pending and the list has more to load: only the pending load
\* keeps a further request from being accepted
C16_Witness ==
    /\ selector.isLoading
    /\ hasMoreItems(selector)
    /\ loadMoreItems(selector) = selector

\* C17: a step that changes the search text of an open selector leaves
\* visibleCount at batchSize, whether or not a load is pending.
C17_TermChangeResets ==
    [][(LazyLoading /\ selector.isOpen
            /\ selector'.searchTerm # selector.searchTerm)
        => selector'.visibleCount = BatchSize]_vars

\* the text of an open selector changed while a load was pending
C17_Witness ==
    /\ LazyLoading
    /\ selector.isOpen
    /\ selector.timers # <<>>
    /\ selector.timers[1].termChanged
    /\ selector.visibleCount = BatchSize

\* C18: a scheduled load callback whose selector has closed or whose search
\* text has changed since it was scheduled does not change visibleCount.
C18_StaleLoadCancelled ==
    [][(/\ selector.timers # <<>>
        /\ selector'.timers = Tail(selector.timers)
        /\ (selector.timers[1].termChanged \/ selector.timers[1].closed))
        => selector'.visibleCount = selector.visibleCount]_vars

\* C19: every step that opens a closed ComboBox or OperatorComboBox leaves it
\* with an empty search text and no highlighted option.
C19_OpensFresh ==
    [][(/\ component # "SmartComboBox"
        /\ ~selector.isOpen
        /\ selector'.isOpen)
        => (selector'.searchTerm = <<>> /\ selector'.highlightedIndex = -1)]_vars

\* the instance is closed, its search text is discarded and its value kept
ClosedDiscarding(sel) ==
    /\ ~sel.isOpen
    /\ sel.value = selector.value
    /\ component # "SmartComboBox" => sel.searchTerm = <<>>

AfterKey(key) == effects(selector, handleKeyDown(selector, key))

\* the instance differs from the present one at most in highlightedIndex and
\* in what lazy loading keeps
OnlyMovesHighlight(sel) ==
    /\ sel.isOpen = selector.isOpen
    /\ sel.searchTerm = selector.searchTerm
    /\ sel.value = selector.value

\* C21: on an open selector whose visible list has n >= 1 options, ArrowDown
\* sets highlightedIndex to (highlightedIndex + 1) mod n and ArrowUp sets it
\* to highlightedIndex - 1 when that is positive and to n - 1 otherwise;
\* neither changes the open state, the search text or the committed value.
C21_ArrowsWrap ==
    LET n == Len(visibleOptions(selector))
    IN  (selector.isOpen /\ n >= 1) =>
            /\ AfterKey("ArrowDown").highlightedIndex =
                   (selector.highlightedIndex + 1) % n
            /\ AfterKey("ArrowUp").highlightedIndex =
                   (IF selector.highlightedIndex > 0
                    THEN selector.highlightedIndex - 1
                    ELSE n - 1)
            /\ OnlyMovesHighlight(AfterKey("ArrowDown"))
            /\ OnlyMovesHighlight(AfterKey("ArrowUp"))

\* the last of several visible options is highlighted, and ArrowDown wraps
C21_Witness ==
    /\ selector.isOpen
    /\ Len(visibleOptions(selector)) >= 2
    /\ selector.highlightedIndex = Len(visibleOptions(selector)) - 1
    /\ AfterKey("ArrowDown").highlightedIndex = 0

\* highlightedIndex designates an option of the visible list
HighlightValid ==
    /\ selector.highlightedIndex >= 0
    /\ selector.highlightedIndex < Len(visibleOptions(selector))

C23_ClickCommits ==
    selector.isOpen =>
        \A index \in 1..Len(visibleOptions(selector)) :
            LET clicked == visibleOptions(selector)[index].value
                after == effects(selector, handleOptionClick(selector, clicked))
            IN  after.value = clicked /\ ~after.isOpen

\* an open list with one option highlighted and others to click
C23_Witness ==
    /\ selector.isOpen
    /\ HighlightValid
    /\ Len(visibleOptions(selector)) >= 2
    /\ selector.value = <<>>

\* C24: text typed into an open selector becomes its search text, sets
\* highlightedIndex to -1 and, with lazy loading, visibleCount to batchSize,
\* and leaves the selector open.
C24_TypingResets ==
    selector.isOpen =>
        \A newValue \in SearchTerms \ {selector.searchTerm} :
            LET after == effects(selector, handleInputChange(selector, newValue))
            IN  /\ after.searchTerm = newValue
                /\ after.highlightedIndex = -1
                /\ LazyLoading => after.visibleCount = BatchSize
                /\ after.isOpen

\* an open list that has grown and has a highlighted option
C24_Witness ==
    /\ LazyLoading
    /\ selector.isOpen
    /\ selector.highlightedIndex >= 0
    /\ selector.visibleCount > BatchSize

\* C25: the clear button empties the value and the text of the input and
\* leaves the selector open or closed as it was.
C25_ClearKeepsOpenState ==
    (component # "OperatorComboBox" /\ selector.value # <<>>) =>
        LET after == effects(selector, clearOnClick(selector))
        IN  /\ after.value = <<>>
            /\ after.searchTerm = <<>>
            /\ after.isOpen = selector.isOpen

\* an open ComboBox with a value to clear and a search text
C25_Witness ==
    /\ component = "ComboBox"
    /\ selector.isOpen
    /\ selector.value # <<>>
    /\ selector.searchTerm # <<>>
    /\ selector.highlightedIndex = -1

\* C26: visibleCount of a lazily loading selector is never more than the
\* greater of batchSize and the number of filtered options.
C26_VisibleCountWithinTotal ==
    LazyLoading =>
        selector.visibleCount <= Max({BatchSize, Len(filteredOptions(selector))})

\* C27: visibleCount is not lowered by any step that leaves the search text
\* as it was.
C27_VisibleCountMonotone ==
    [][(LazyLoading /\ selector'.searchTerm = selector.searchTerm)
        => selector'.visibleCount >= selector.visibleCount]_vars

\* a selector closed by a commit after its list had grown
C27_Witness ==
    /\ LazyLoading
    /\ ~selector.isOpen
    /\ selector.visibleCount > BatchSize
    /\ selector.value # <<>>

\* the key, pressed now, leaves the highlight within 3 of the end of the
\* visible list while more filtered options remain and no load is pending
NearFrontier(key) ==
    /\ AfterKey(key).highlightedIndex >= Len(visibleOptions(selector)) - 3
    /\ hasMoreItems(selector)
    /\ ~selector.isLoading

\* the key, pressed now, schedules exactly one load
SchedulesOne(key) ==
    /\ Len(AfterKey(key).timers) = Len(selector.timers) + 1
    /\ AfterKey(key).isLoading

\* C28 as stated: ArrowDown and ArrowUp alike schedule exactly one load when
\* they leave the highlight within 3 of the end of the visible list while
\* more remain and none is pending, and none when no items remain or a load
\* is pending.
C28_Original ==
    (LazyLoading /\ selector.isOpen) =>
        \A key \in {"ArrowDown", "ArrowUp"} :
            /\ NearFrontier(key) => SchedulesOne(key)
            /\ (~hasMoreItems(selector) \/ selector.isLoading) =>
                   AfterKey(key).timers = selector.timers

\* C28: ArrowDown schedules exactly one load when it leaves the highlight
\* within 3 of the end of the visible list while more filtered options remain
\* and no load is pending, and none otherwise; ArrowUp never schedules one.
C28_ArrowDownLoads ==
    (LazyLoading /\ selector.isOpen) =>
        /\ IF NearFrontier("ArrowDown")
           THEN SchedulesOne("ArrowDown")
           ELSE AfterKey("ArrowDown").timers = selector.timers
        /\ AfterKey("ArrowUp").timers = selector.timers

\* more options remain and no load is pending: ArrowDown schedules a load
\* and ArrowUp, which wraps to the last visible option, does not
C28_Witness ==
    /\ LazyLoading
    /\ selector.isOpen
    /\ NearFrontier("ArrowDown")
    /\ NearFrontier("ArrowUp")
    /\ Len(AfterKey("ArrowDown").timers) = 1
    /\ AfterKey("ArrowUp").timers = <<>>

\* C29: whenever a load is pending, a state follows in which none is,
\* whatever happens to the selector meanwhile.
C29_PendingEnds == selector.isLoading ~> ~selector.isLoading

\* a load is pending in a selector that has since been closed and whose
\* search text has since changed
C29_Witness ==
    /\ selector.isLoading
    /\ ~selector.isOpen
    /\ selector.timers # <<>>
    /\ selector.timers[1].termChanged
    /\ selector.timers[1].closed

\* the keys for which the handlers have no branch in the present open state
UnhandledKeys ==
    IF selector.isOpen
    THEN Keys \ {"Escape", "ArrowDown", "ArrowUp", "Enter"}
    ELSE Keys \ {"Enter", " ", "ArrowDown"}

\* C30: a key for which the key handler has no branch in the present state
\* (other than Enter, Space, ArrowDown while closed; other than Escape,
\* ArrowDown, ArrowUp, Enter while open) leaves the whole instance as it is.
C30_UnhandledKeyIgnored ==
    \A key \in UnhandledKeys : AfterKey(key) = selector

\* an open selector with a value, a highlighted option and a pending load,
\* on which Space changes nothing
C30_Witness ==
    /\ selector.isOpen
    /\ selector.value # <<>>
    /\ selector.highlightedIndex >= 0
    /\ selector.isLoading
    /\ " " \in UnhandledKeys
    /\ AfterKey(" ") = selector

\* the constant node of the empty string
EmptyConstant == [type |-> "constant", value |-> Str(<<>>)]

\* C31: an empty right operand (rightValue in value mode, calc.rightValue in
\* calculation mode) classifies as the string constant "", and both
\* compilers return the complete tree of the mode: the JSON tree has the
\* node {type:"constant", value:""} as its right (or calculation right) and
\* the JSONLogic rule has the literal "" in the right slot.
C31_EmptyOperand ==
    /\ (valueMode = "value" /\ expression.rightValue = <<>>) =>
          /\ analyzeRightValue(expression.rightValue) = EmptyConstant
          /\ generateJSON =
                 [type |-> "comparison",
                  left |-> [type |-> "tag", value |-> Str(expression.leftTag)],
                  operator |-> expression.operator,
                  right |-> EmptyConstant]
          /\ generateJSONLogic =
                 (operatorMap(expression.operator) :>
                      <<[var |-> Str(expression.leftTag)], Str(<<>>)>>)
    /\ (valueMode = "calculation" /\ expression.calculation.rightValue = <<>>) =>
          LET calc == expression.calculation
          IN  /\ analyzeSimpleValue(calc.rightValue) = EmptyConstant
              /\ generateJSON =
                     [type |-> "comparison",
                      left |-> [type |-> "tag", value |-> Str(expression.leftTag)],
                      operator |-> expression.operator,
                      right |-> [type |-> "calculation",
                                 value |-> [left |-> [type |-> "tag",
                                                      value |-> Str(calc.leftTag)],
                                            operator |-> calc.operator,
                                            right |-> EmptyConstant]]]
              /\ generateJSONLogic =
                     (operatorMap(expression.operator) :>
                          <<[var |-> Str(expression.leftTag)],
                            (calcOperatorMap(calc.operator) :>
                                 <<[var |-> Str(calc.leftTag)], Str(<<>>)>>)>>)

\* T < (4 - ""), the right operand of the calculation cleared after typing
C31_Witness ==
    /\ valueMode = "calculation"
    /\ expression.leftTag = <<"T">>
    /\ expression.operator = "<"
    /\ expression.rightValue = <<>>
    /\ expression.calculation =
           [leftTag |-> <<"4">>, operator |-> "-", rightValue |-> <<>>]
    /\ generateJSONLogic =
           ("<" :> <<[var |-> Str(<<"T">>)],
                     ("-" :> <<[var |-> Str(<<"4">>)], Str(<<>>)>>)>>)

\* C32: in every reachable state of an open selector highlightedIndex is -1
\* or an index of the visible option list (0 <= highlightedIndex <
\* visibleLength), also when the filtered list is empty and an arrow key has
\* been pressed on it.
C32_HighlightInRange ==
    selector.isOpen =>
        \/ selector.highlightedIndex = -1
        \/ /\ 0 <= selector.highlightedIndex
           /\ selector.highlightedIndex < Len(visibleOptions(selector))

\* C33: after any sequence of operator commits, mode switches and
\* reference-set changes, Expression.operator is one of =, !=, >, <, >=, <=
\* and Calculation.operator is one of +, -, *, /: an OperatorComboBox hands
\* to onChange only ids of its own options, never typed text or "".
C33_OperatorsInSets ==
    /\ expression.operator \in {"=", "!=", ">", "<", ">=", "<="}
    /\ expression.calculation.operator \in {"+", "-", "*", "/"}
    /\ OperatorCommits \subseteq {"=", "!=", ">", "<", ">=", "<="}
    /\ CalcOperatorCommits \subseteq {"+", "-", "*", "/"}

\* both operators chosen after the reference set was changed to "4,T", in
\* calculation mode
C33_Witness ==
    /\ customTags = <<"4", ",", "T">>
    /\ valueMode = "calculation"
    /\ expression.operator = "<="
    /\ expression.calculation.operator = "/"

\* C34: in every reachable state Expression.leftTag and Calculation.leftTag
\* are each the empty string or the id of an option of the current reference
\* set, also after every change of the reference set.
C34_LeftTagsInReferenceSet ==
    /\ expression.leftTag \in {<<>>} \cup OptionIds(availableTags)
    /\ expression.calculation.leftTag \in {<<>>} \cup OptionIds(availableTags)

\* C35: whenever the entry mode is 'calculation', Expression.rightValue is
\* the empty string; and a step that switches the entry mode, in either
\* direction, leaves Expression.leftTag, Expression.operator and the three
\* fields of the stored calculation unchanged.
C35_ModeSwitchFrame ==
    /\ [](valueMode = "calculation" => expression.rightValue = <<>>)
    /\ [][valueMode' # valueMode =>
              /\ expression'.leftTag = expression.leftTag
              /\ expression'.operator = expression.operator
              /\ expression'.calculation = expression.calculation]_vars

\* back in value mode with the calculation 4 * T, entered in calculation
\* mode, still stored
C35_Witness ==
    /\ valueMode = "value"
    /\ expression.leftTag = <<"T">>
    /\ expression.operator = ">"
    /\ expression.calculation =
           [leftTag |-> <<"4">>, operator |-> "*", rightValue |-> <<"T">>]

\* C36: after every transition of a selector the open flag last reported to
\* the parent through onOpenChange (false before any report) equals the
\* selector's own open state.
C36_ParentKnowsOpenState == selector.parentOpen = selector.isOpen

\* C37: for the free-text right-value selector, a SmartComboBox whose parent
\* stores whatever onChange hands over, the text shown in the input equals
\* the stored value after every event; so Escape and a click outside close
\* the selector with the typed text as the value.
C37_InputIsValue ==
    component = "SmartComboBox" =>
        /\ selector.searchTerm = selector.value
        /\ selector.isOpen =>
              /\ AfterKey("Escape").value = selector.searchTerm
              /\ AfterKey("Escape").searchTerm = selector.searchTerm
              /\ ~AfterKey("Escape").isOpen
              /\ effects(selector, overlayOnClick(selector)).value = selector.searchTerm
              /\ effects(selector, overlayOnClick(selector)).searchTerm = selector.searchTerm

\* "t", the id of no option, was typed and the selector closed by a click
\* outside, the one close that the parent is not told of
C37_Witness ==
    /\ component = "SmartComboBox"
    /\ ~selector.isOpen
    /\ selector.parentOpen
    /\ selector.searchTerm = <<"t">>
    /\ selector.value = <<"t">>

\* an operand of the JSONLogic rule is {"var": name}
IsVar(operand) == DOMAIN operand = {"var"}

\* an operand of the JSONLogic rule is a bare string or number
IsLiteral(operand) == DOMAIN operand \in {{"string"}, {"number"}}

\* the operand of the rule and the node of the tree at the same position
\* agree: {"var": name} exactly for a reference node (type 'tag') with that
\* name, a bare literal exactly for a constant node with that value
Agree(operand, node) ==
    /\ IsVar(operand) <=> node.type = "tag"
    /\ IsVar(operand) => operand.var = node.value
    /\ IsLiteral(operand) <=> node.type = "constant"
    /\ IsLiteral(operand) => operand = node.value

\* C38: for every Expression, entry mode and reference set the two outputs
\* agree on classification at every operand position (left, right, and the
\* two operands of a calculation): {"var": name} in the JSONLogic rule if
\* and only if the node of the JSON tree is a reference node with that
\* name, a bare literal if and only if the node is a constant with that value.
C38_OutputsAgree ==
    LET tree == generateJSON
        operands == generateJSONLogic[operatorMap(expression.operator)]
    IN  /\ Agree(operands[1], tree.left)
        /\ IF tree.right.type = "calculation"
           THEN LET calc == tree.right.value
                    key == calcOperatorMap(calc.operator)
                IN  /\ DOMAIN operands[2] = {key}
                    /\ Len(operands[2][key]) = 2
                    /\ Agree(operands[2][key][1], calc.left)
                    /\ Agree(operands[2][key][2], calc.right)
           ELSE /\ tree.right.type \in {"tag", "constant"}
                /\ Agree(operands[2], tree.right)

\* T >= (T * 4) over the tags "T, 4": the numeric-looking "4" is a reference
\* in both outputs
C38_Witness ==
    /\ valueMode = "calculation"
    /\ customTags = generateDefaultTags
    /\ expression.leftTag = <<"T">>
    /\ expression.operator = ">="
    /\ expression.calculation =
           [leftTag |-> <<"T">>, operator |-> "*", rightValue |-> <<"4">>]
    /\ generateJSON.right.value.right = [type |-> "tag", value |-> Str(<<"4">>)]
    /\ generateJSONLogic[">="][2]["*"][2] = [var |-> Str(<<"4">>)]
====
